---- MODULE Spec2Model ----
(***************************************************************************)
(* Model of the GTE embeddings service (python/embeddings-service).        *)
(*   model.py : GTEModel, the adapter around tokenizer + encoder.          *)
(*   main.py  : the FastAPI handlers load_model, health, embed and         *)
(*              embed_batch, and the process-wide handle _model.           *)
(* Texts are sequences of characters; floats 0.0 and 1.0 are written 0 and *)
(* 1; the encoder's output for a text is a fixed vector determined by the  *)
(* text.  took_ms (wall-clock time) is left out: no handler branches on it.*)
(***************************************************************************)
EXTENDS Integers, Sequences, FiniteSets, TLC

\* ------------------------------------------------------------------ bounds
MaxTextLen == 1
MaxBatch == 2
NReq == 2

\* -------------------------------------------------------------- alphabet
Whitespace == {" "}
Chars == Whitespace \cup {"a"}

RECURSIVE SeqsUpTo(_, _)
SeqsUpTo(S, n) ==
    IF n = 0 THEN {<<>>}
    ELSE LET shorter == SeqsUpTo(S, n - 1)
         IN shorter \cup {Append(s, x) : s \in {q \in shorter : Len(q) = n - 1}, x \in S}

TextsUpTo(n) == SeqsUpTo(Chars, n)
BatchesUpTo(n, len) == SeqsUpTo(TextsUpTo(len), n) \ {<<>>}

\* Requests issued by the concurrent callers: every kind of text, and batches
\* with a real entry alone, after an empty entry, and before one.
ConcTexts == {<<>>, <<" ">>, <<"a">>}
ConcBatches == { << <<"a">> >>, << <<" ">>, <<"a">> >>, << <<"a">>, <<>> >> }

\* --------------------------------------------------------- program values
DefaultModelId == "Alibaba-NLP/gte-multilingual-base"
ModelIdEnv == {"unset", "custom/encoder"}
Causes == {"CUDA out of memory", "tokenizer error"}

\* self.dimensions, "known dim for gte-multilingual-base"
Dimensions == 768
\* the literal in health()'s answer
HealthDims == 768

None == [tag |-> "None"]
NoResp == [status |-> 0]
JsonNull == [json |-> "null"]
JsonStr(s) == [json |-> "string", value |-> s]

Reqs == 1..NReq
SoloReqs == {1}

VARIABLES
    env_MODEL_ID,   \* os.environ["MODEL_ID"], or "unset"
    model,          \* main._model: None or the constructed GTEModel
    spc,            \* position of the startup hook
    self,           \* the GTEModel under construction
    loadLog,        \* from_pretrained calls made so far, with their outcome
    pc,             \* per request: position of its handler
    kind,           \* per request: which endpoint
    req,            \* per request: the validated request body
    idx,            \* embed_batch: loop index of the partition loop
    embeddings,     \* embed_batch local, per call frame
    to_compute,     \* embed_batch local, per call frame
    positions,      \* embed_batch local, per call frame
    computed,       \* embed_batch local: the adapter's ndarray
    comp_idx,       \* embed_batch local
    vec,            \* embed local: the adapter's ndarray
    adapterCalls,   \* per request: calls made on the adapter, with outcome
    resp            \* per request: what the caller receives

startupVars == <<env_MODEL_ID, model, spc, self, loadLog>>
localVars == <<idx, embeddings, to_compute, positions, computed, comp_idx, vec>>
reqVars == <<pc, kind, req, adapterCalls, resp>>
vars == <<env_MODEL_ID, model, spc, self, loadLog, pc, kind, req, idx, embeddings,
          to_compute, positions, computed, comp_idx, vec, adapterCalls, resp>>

\* ------------------------------------------------------------ str.strip()
RECURSIVE LStrip(_)
LStrip(t) == IF t # <<>> /\ Head(t) \in Whitespace THEN LStrip(Tail(t)) ELSE t

RECURSIVE RStrip(_)
RStrip(t) ==
    IF t # <<>> /\ t[Len(t)] \in Whitespace THEN RStrip(SubSeq(t, 1, Len(t) - 1)) ELSE t

NoStrip(t) == t

Strip(t) == RStrip(LStrip(t))

\* ------------------------------------------------------- model.py adapter
RECURSIVE TextCode(_)
TextCode(t) ==
    IF t = <<>> THEN 0
    ELSE (IF Head(t) \in Whitespace THEN 1 ELSE 2) + 3 * TextCode(Tail(t))

\* GTEModel.embed: one float32 row of hidden size, a function of the text.
AdapterEmbed(m, text) ==
    [dtype |-> "float32", shape |-> <<m.dimensions>>,
     data |-> [i \in 1..m.dimensions |-> 2 + TextCode(text)]]

\* GTEModel.embed_batch: one row per text, in order.
AdapterEmbedBatch(m, texts) ==
    [dtype |-> "float32", shape |-> <<Len(texts), m.dimensions>>,
     data |-> [k \in 1..Len(texts) |-> AdapterEmbed(m, texts[k]).data]]

\* ndarray indexing computed[k] (0-based) and ndarray.tolist()
Row(arr, k) == [dtype |-> arr.dtype, shape |-> Tail(arr.shape), data |-> arr.data[k + 1]]
ToList(arr) == arr.data

\* ------------------------------------------------------------ main.py
\* [0.0] * n ; vec_list[0] = 1.0
UnitVector(n) == [[i \in 1..n |-> 0] EXCEPT ![1] = 1]

UnavailableStatus500 == [status |-> 500, detail |-> "Model not loaded"]

Unavailable == [status |-> 503, detail |-> "Model not loaded"]

EmbedFailureAsSentinel(m, cause) ==
    [status |-> 200, embedding |-> UnitVector(m.dimensions),
     dims |-> m.dimensions, model |-> m.model_name]

EmbedFailure(m, cause) ==
    [status |-> 500, detail |-> <<"Failed to compute embedding: ", cause>>]

BatchFailurePartial(m, embs, cause) ==
    [status |-> 200, embeddings |-> embs, dims |-> m.dimensions, model |-> m.model_name]

BatchFailure(m, embs, cause) ==
    [status |-> 500, detail |-> <<"Failed to compute embeddings: ", cause>>]

EmbedResponse(m, embedding) ==
    [status |-> 200, embedding |-> embedding, dims |-> m.dimensions, model |-> m.model_name]

BatchResponse(m, embs) ==
    [status |-> 200, embeddings |-> embs, dims |-> m.dimensions, model |-> m.model_name]

HealthAlwaysNamed(m) ==
    [status |-> 200,
     body |-> [status |-> "ok", model |-> JsonStr(DefaultModelId), dims |-> HealthDims]]

HealthBody(m) ==
    [status |-> 200,
     body |-> [status |-> "ok",
               model |-> IF m # None THEN JsonStr(m.model_name) ELSE JsonNull,
               dims |-> HealthDims]]

\* Each invocation of a handler has its own locals.
SharedFrame(r) == 1

Frame(r) == r

\* One iteration of "for idx, t in enumerate(texts)": the three lists after it.
PartitionAll(m, embs, tc, ps, i, t) ==
    [embeddings |-> Append(embs, <<>>), to_compute |-> Append(tc, t),
     positions |-> Append(ps, i)]

PartitionStep(m, embs, tc, ps, i, t) ==
    IF Strip(t) = <<>>
    THEN [embeddings |-> Append(embs, UnitVector(m.dimensions)),
          to_compute |-> tc, positions |-> ps]
    ELSE [embeddings |-> Append(embs, <<>>), to_compute |-> Append(tc, t),
          positions |-> Append(ps, i)]

\* One iteration of "for pos in positions": embeddings after it.
DistributeByCount(embs, pos, comp, ci) == [embs EXCEPT ![ci + 1] = ToList(Row(comp, ci))]

DistributeSkip(embs, pos, comp, ci) == embs

DistributeStep(embs, pos, comp, ci) == [embs EXCEPT ![pos + 1] = ToList(Row(comp, ci))]

\* ----------------------------------------------------------------- Init
IdleLocals ==
    /\ idx = [r \in Reqs |-> 0]
    /\ embeddings = [r \in Reqs |-> <<>>]
    /\ to_compute = [r \in Reqs |-> <<>>]
    /\ positions = [r \in Reqs |-> <<>>]
    /\ computed = [r \in Reqs |-> None]
    /\ comp_idx = [r \in Reqs |-> 0]
    /\ vec = [r \in Reqs |-> None]

IdleRequests ==
    /\ pc = [r \in Reqs |-> "idle"]
    /\ kind = [r \in Reqs |-> "none"]
    /\ req = [r \in Reqs |-> None]
    /\ adapterCalls = [r \in Reqs |-> <<>>]
    /\ resp = [r \in Reqs |-> NoResp]
    /\ IdleLocals

Init ==
    /\ env_MODEL_ID \in ModelIdEnv
    /\ model = None
    /\ spc = "boot"
    /\ self = None
    /\ loadLog = <<>>
    /\ IdleRequests

\* -------------------------------------------------------------- startup
\* load_model reads MODEL_ID; GTEModel.__init__ stores the name.
LoadModel ==
    /\ spc = "boot"
    /\ self' = [tag |-> "GTEModel",
                model_name |-> IF env_MODEL_ID = "unset" THEN DefaultModelId ELSE env_MODEL_ID,
                tokenizer |-> "unset", model |-> "unset", device |-> "unset",
                dimensions |-> 0]
    /\ spc' = "local_tokenizer"
    /\ UNCHANGED <<env_MODEL_ID, model, loadLog, reqVars, localVars>>

FallbackModelOnly == "net_model"

Fallback == "net_tokenizer"

LocalTokenizer ==
    /\ spc = "local_tokenizer"
    /\ \E ok \in BOOLEAN :
        /\ loadLog' = Append(loadLog, [what |-> "tokenizer", local_files_only |-> TRUE, ok |-> ok])
        /\ IF ok
           THEN self' = [self EXCEPT !.tokenizer = "local"] /\ spc' = "local_model"
           ELSE self' = self /\ spc' = Fallback
    /\ UNCHANGED <<env_MODEL_ID, model, reqVars, localVars>>

LocalModel ==
    /\ spc = "local_model"
    /\ \E ok \in BOOLEAN :
        /\ loadLog' = Append(loadLog, [what |-> "model", local_files_only |-> TRUE, ok |-> ok])
        /\ IF ok
           THEN self' = [self EXCEPT !.model = "local"] /\ spc' = "finish"
           ELSE self' = self /\ spc' = Fallback
    /\ UNCHANGED <<env_MODEL_ID, model, reqVars, localVars>>

NetTokenizer ==
    /\ spc = "net_tokenizer"
    /\ \E ok \in BOOLEAN :
        /\ loadLog' = Append(loadLog, [what |-> "tokenizer", local_files_only |-> FALSE, ok |-> ok])
        /\ IF ok
           THEN self' = [self EXCEPT !.tokenizer = "network"] /\ spc' = "net_model"
           ELSE self' = self /\ spc' = "failed"
    /\ UNCHANGED <<env_MODEL_ID, model, reqVars, localVars>>

NetModel ==
    /\ spc = "net_model"
    /\ \E ok \in BOOLEAN :
        /\ loadLog' = Append(loadLog, [what |-> "model", local_files_only |-> FALSE, ok |-> ok])
        /\ IF ok
           THEN self' = [self EXCEPT !.model = "network"] /\ spc' = "finish"
           ELSE self' = self /\ spc' = "failed"
    /\ UNCHANGED <<env_MODEL_ID, model, reqVars, localVars>>

\* model.eval(), device choice, model.to(device), dimensions = 768, and the
\* assignment _model = GTEModel(...) once __init__ has returned.
FinishInit ==
    /\ spc = "finish"
    /\ \/ \E cuda \in BOOLEAN :
            /\ self' = [self EXCEPT !.device = IF cuda THEN "cuda" ELSE "cpu",
                                    !.dimensions = Dimensions]
            /\ model' = self'
            /\ spc' = "done"
       \/ /\ spc' = "failed"
          /\ UNCHANGED <<self, model>>
    /\ UNCHANGED <<env_MODEL_ID, loadLog, reqVars, localVars>>

Startup == LoadModel \/ LocalTokenizer \/ LocalModel \/ NetTokenizer \/ NetModel \/ FinishInit

\* ------------------------------------------------------------- requests
\* A request passes validation (EmbedRequest, BatchRequest with min_items=1)
\* and its handler is entered.
Arrive(r, texts, batches) ==
    /\ pc[r] = "idle"
    /\ \/ \E t \in texts : kind' = [kind EXCEPT ![r] = "embed"] /\ req' = [req EXCEPT ![r] = [text |-> t]]
       \/ \E b \in batches : kind' = [kind EXCEPT ![r] = "embed_batch"] /\ req' = [req EXCEPT ![r] = [texts |-> b]]
       \/ kind' = [kind EXCEPT ![r] = "health"] /\ req' = [req EXCEPT ![r] = None]
    /\ pc' = [pc EXCEPT ![r] = "check"]
    /\ UNCHANGED <<startupVars, localVars, adapterCalls, resp>>

Health(r) ==
    /\ pc[r] = "check" /\ kind[r] = "health"
    /\ resp' = [resp EXCEPT ![r] = HealthBody(model)]
    /\ pc' = [pc EXCEPT ![r] = "done"]
    /\ UNCHANGED <<startupVars, localVars, kind, req, adapterCalls>>

\* embed, lines 54-71: the 503 guard and the empty-text branch.
EmbedCheck(r) ==
    /\ pc[r] = "check" /\ kind[r] = "embed"
    /\ IF model = None
       THEN /\ resp' = [resp EXCEPT ![r] = Unavailable]
            /\ pc' = [pc EXCEPT ![r] = "done"]
       ELSE IF Strip(req[r].text) = <<>>
       THEN /\ resp' = [resp EXCEPT ![r] = EmbedResponse(model, UnitVector(model.dimensions))]
            /\ pc' = [pc EXCEPT ![r] = "done"]
       ELSE /\ resp' = resp
            /\ pc' = [pc EXCEPT ![r] = "call"]
    /\ UNCHANGED <<startupVars, localVars, kind, req, adapterCalls>>

\* embed, lines 72-74: vec = _model.embed(text), or the except clause.
EmbedCall(r) ==
    /\ pc[r] = "call" /\ kind[r] = "embed"
    /\ \/ /\ vec' = [vec EXCEPT ![r] = AdapterEmbed(model, req[r].text)]
          /\ adapterCalls' = [adapterCalls EXCEPT ![r] =
                Append(@, [fn |-> "embed", arg |-> req[r].text, outcome |-> "ok"])]
          /\ pc' = [pc EXCEPT ![r] = "respond"]
          /\ resp' = resp
       \/ \E cause \in Causes :
          /\ adapterCalls' = [adapterCalls EXCEPT ![r] =
                Append(@, [fn |-> "embed", arg |-> req[r].text, outcome |-> cause])]
          /\ resp' = [resp EXCEPT ![r] = EmbedFailure(model, cause)]
          /\ pc' = [pc EXCEPT ![r] = "done"]
          /\ vec' = vec
    /\ UNCHANGED <<startupVars, kind, req, idx, embeddings, to_compute, positions,
                   computed, comp_idx>>

\* embed, lines 75-81.
EmbedRespond(r) ==
    /\ pc[r] = "respond" /\ kind[r] = "embed"
    /\ resp' = [resp EXCEPT ![r] = EmbedResponse(model, ToList(vec[r]))]
    /\ pc' = [pc EXCEPT ![r] = "done"]
    /\ UNCHANGED <<startupVars, localVars, kind, req, adapterCalls>>

\* embed_batch, lines 85-94: the 503 guard and the three fresh lists.
BatchCheck(r) ==
    /\ pc[r] = "check" /\ kind[r] = "embed_batch"
    /\ IF model = None
       THEN /\ resp' = [resp EXCEPT ![r] = Unavailable]
            /\ pc' = [pc EXCEPT ![r] = "done"]
            /\ UNCHANGED <<embeddings, to_compute, positions, idx>>
       ELSE /\ embeddings' = [embeddings EXCEPT ![Frame(r)] = <<>>]
            /\ to_compute' = [to_compute EXCEPT ![Frame(r)] = <<>>]
            /\ positions' = [positions EXCEPT ![Frame(r)] = <<>>]
            /\ idx' = [idx EXCEPT ![r] = 0]
            /\ pc' = [pc EXCEPT ![r] = "partition"]
            /\ resp' = resp
    /\ UNCHANGED <<startupVars, kind, req, adapterCalls, computed, comp_idx, vec>>

\* embed_batch, lines 95-103: one iteration of the partition loop.
BatchPartition(r) ==
    /\ pc[r] = "partition" /\ kind[r] = "embed_batch"
    /\ idx[r] < Len(req[r].texts)
    /\ LET f == Frame(r)
           out == PartitionStep(model, embeddings[f], to_compute[f], positions[f],
                                idx[r], req[r].texts[idx[r] + 1])
       IN /\ embeddings' = [embeddings EXCEPT ![f] = out.embeddings]
          /\ to_compute' = [to_compute EXCEPT ![f] = out.to_compute]
          /\ positions' = [positions EXCEPT ![f] = out.positions]
    /\ idx' = [idx EXCEPT ![r] = @ + 1]
    /\ UNCHANGED <<startupVars, reqVars, computed, comp_idx, vec>>

\* embed_batch, line 104: "if to_compute:".
BatchBranch(r) ==
    /\ pc[r] = "partition" /\ kind[r] = "embed_batch"
    /\ idx[r] = Len(req[r].texts)
    /\ pc' = [pc EXCEPT ![r] = IF to_compute[Frame(r)] # <<>> THEN "call" ELSE "respond"]
    /\ UNCHANGED <<startupVars, localVars, kind, req, adapterCalls, resp>>

\* embed_batch, lines 105-106 and 111-112: the single adapter call.
BatchCall(r) ==
    /\ pc[r] = "call" /\ kind[r] = "embed_batch"
    /\ LET f == Frame(r) IN
       \/ /\ computed' = [computed EXCEPT ![r] = AdapterEmbedBatch(model, to_compute[f])]
          /\ comp_idx' = [comp_idx EXCEPT ![r] = 0]
          /\ adapterCalls' = [adapterCalls EXCEPT ![r] =
                Append(@, [fn |-> "embed_batch", arg |-> to_compute[f], outcome |-> "ok"])]
          /\ pc' = [pc EXCEPT ![r] = "distribute"]
          /\ resp' = resp
       \/ \E cause \in Causes :
          /\ adapterCalls' = [adapterCalls EXCEPT ![r] =
                Append(@, [fn |-> "embed_batch", arg |-> to_compute[f], outcome |-> cause])]
          /\ resp' = [resp EXCEPT ![r] = BatchFailure(model, embeddings[f], cause)]
          /\ pc' = [pc EXCEPT ![r] = "done"]
          /\ UNCHANGED <<computed, comp_idx>>
    /\ UNCHANGED <<startupVars, kind, req, idx, embeddings, to_compute, positions, vec>>

\* embed_batch, lines 107-109: one iteration of "for pos in positions"; an
\* index outside either list raises inside the try block.
BatchDistribute(r) ==
    /\ pc[r] = "distribute" /\ kind[r] = "embed_batch"
    /\ LET f == Frame(r)
           ci == comp_idx[r]
       IN IF ci >= Len(positions[f])
          THEN /\ pc' = [pc EXCEPT ![r] = "respond"]
               /\ UNCHANGED <<embeddings, comp_idx, resp>>
          ELSE LET pos == positions[f][ci + 1]
               IN IF ci < computed[r].shape[1] /\ pos < Len(embeddings[f])
                  THEN /\ embeddings' = [embeddings EXCEPT ![f] =
                              DistributeStep(embeddings[f], pos, computed[r], ci)]
                       /\ comp_idx' = [comp_idx EXCEPT ![r] = ci + 1]
                       /\ UNCHANGED <<pc, resp>>
                  ELSE /\ resp' = [resp EXCEPT ![r] =
                              BatchFailure(model, embeddings[f], "index out of range")]
                       /\ pc' = [pc EXCEPT ![r] = "done"]
                       /\ UNCHANGED <<embeddings, comp_idx>>
    /\ UNCHANGED <<startupVars, kind, req, adapterCalls, idx, to_compute, positions,
                   computed, vec>>

\* embed_batch, lines 110-119.
BatchRespond(r) ==
    /\ pc[r] = "respond" /\ kind[r] = "embed_batch"
    /\ resp' = [resp EXCEPT ![r] = BatchResponse(model, embeddings[Frame(r)])]
    /\ pc' = [pc EXCEPT ![r] = "done"]
    /\ UNCHANGED <<startupVars, localVars, kind, req, adapterCalls>>

\* The caller has its answer; the handler's frame is gone.
Finish(r) ==
    /\ pc[r] = "done"
    /\ pc' = [pc EXCEPT ![r] = "idle"]
    /\ kind' = [kind EXCEPT ![r] = "none"]
    /\ req' = [req EXCEPT ![r] = None]
    /\ adapterCalls' = [adapterCalls EXCEPT ![r] = <<>>]
    /\ resp' = [resp EXCEPT ![r] = NoResp]
    /\ idx' = [idx EXCEPT ![r] = 0]
    /\ embeddings' = [embeddings EXCEPT ![r] = <<>>]
    /\ to_compute' = [to_compute EXCEPT ![r] = <<>>]
    /\ positions' = [positions EXCEPT ![r] = <<>>]
    /\ computed' = [computed EXCEPT ![r] = None]
    /\ comp_idx' = [comp_idx EXCEPT ![r] = 0]
    /\ vec' = [vec EXCEPT ![r] = None]
    /\ UNCHANGED startupVars

Handler(r) ==
    \/ Health(r)
    \/ EmbedCheck(r) \/ EmbedCall(r) \/ EmbedRespond(r)
    \/ BatchCheck(r) \/ BatchPartition(r) \/ BatchBranch(r) \/ BatchCall(r)
    \/ BatchDistribute(r) \/ BatchRespond(r)
    \/ Finish(r)

\* ------------------------------------------------------- specifications
\* Spec: the startup hook and one caller issuing requests one after another,
\* at any point of the startup.
Next ==
    \/ Startup
    \/ \E r \in SoloReqs :
        \/ Arrive(r, TextsUpTo(MaxTextLen), BatchesUpTo(MaxBatch, MaxTextLen))
        \/ Handler(r)

Spec == Init /\ [][Next]_vars

\* SpecConc: the model has been loaded from the local cache; NReq callers
\* issue requests whose handlers run concurrently in the thread pool.
LoadedModel(id) ==
    [tag |-> "GTEModel", model_name |-> IF id = "unset" THEN DefaultModelId ELSE id,
     tokenizer |-> "local", model |-> "local", device |-> "cpu", dimensions |-> Dimensions]

InitConc ==
    /\ env_MODEL_ID \in ModelIdEnv
    /\ model = LoadedModel(env_MODEL_ID)
    /\ self = model
    /\ spc = "done"
    /\ loadLog = << [what |-> "tokenizer", local_files_only |-> TRUE, ok |-> TRUE],
                    [what |-> "model", local_files_only |-> TRUE, ok |-> TRUE] >>
    /\ IdleRequests

NextConc ==
    \E r \in Reqs :
        \/ Arrive(r, ConcTexts, ConcBatches)
        \/ Handler(r)

SpecConc == InitConc /\ [][NextConc]_vars

\* ------------------------------------------------- vocabulary of the claims
IsBlank(t) == \A i \in 1..Len(t) : t[i] \in Whitespace
Sentinel == [i \in 1..Dimensions |-> IF i = 1 THEN 1 ELSE 0]
EncoderOutput(t) == [i \in 1..Dimensions |-> 2 + TextCode(t)]
RealTexts(ts) == SelectSeq(ts, LAMBDA t : ~IsBlank(t))
ConfiguredModelId == IF env_MODEL_ID = "unset" THEN DefaultModelId ELSE env_MODEL_ID
Answered(r, k) == pc[r] = "done" /\ kind[r] = k
FailedCalls(r) == {i \in 1..Len(adapterCalls[r]) : adapterCalls[r][i].outcome # "ok"}

C2_EmbedBlank ==
    [][\A r \in Reqs :
        (/\ pc[r] = "check" /\ kind[r] = "embed" /\ pc'[r] # "check"
         /\ model # None /\ IsBlank(req[r].text))
        => (/\ pc'[r] = "done"
            /\ resp'[r].status = 200
            /\ resp'[r].embedding = Sentinel
            /\ Len(resp'[r].embedding) = resp'[r].dims
            /\ adapterCalls'[r] = <<>>)]_vars

C2_Witness ==
    \E r \in Reqs :
        /\ Answered(r, "embed") /\ req[r].text # <<>> /\ IsBlank(req[r].text)
        /\ resp[r].status = 200 /\ resp[r].embedding = Sentinel
        /\ adapterCalls[r] = <<>>

\* C3: a batch request calls the adapter at most once, only embed_batch, only
\* with the real texts in their original order; once answered (not 503) it
\* has called exactly once if some text is real and never if all are blank.
C3_OneAdapterCall ==
    \A r \in Reqs :
        kind[r] = "embed_batch" =>
            /\ Len(adapterCalls[r]) <= 1
            /\ \A i \in 1..Len(adapterCalls[r]) :
                /\ adapterCalls[r][i].fn = "embed_batch"
                /\ adapterCalls[r][i].arg = RealTexts(req[r].texts)
                /\ adapterCalls[r][i].arg # <<>>
            /\ (pc[r] = "done" /\ resp[r].status # 503) =>
                    Len(adapterCalls[r]) = IF RealTexts(req[r].texts) = <<>> THEN 0 ELSE 1

C3_Witness ==
    \E r \in Reqs :
        /\ Answered(r, "embed_batch") /\ resp[r].status = 200
        /\ Len(adapterCalls[r]) = 1
        /\ Len(adapterCalls[r][1].arg) < Len(req[r].texts)
        /\ \E i \in 1..Len(req[r].texts) : req[r].texts[i] # <<>> /\ IsBlank(req[r].texts[i])

\* C4: a batch request whose adapter call failed is answered, with status 500
\* and the cause in the detail and nothing else: no embeddings are returned;
\* and no answer exists before the handler is done.
C4_BatchFailure ==
    \A r \in Reqs :
        kind[r] = "embed_batch" =>
            /\ pc[r] # "done" => resp[r] = NoResp
            /\ \A i \in FailedCalls(r) :
                /\ pc[r] = "done"
                /\ resp[r] = [status |-> 500,
                              detail |-> <<"Failed to compute embeddings: ",
                                           adapterCalls[r][i].outcome>>]

C4_Witness ==
    \E r \in Reqs :
        /\ Answered(r, "embed_batch") /\ FailedCalls(r) # {}
        /\ resp[r].status = 500
        /\ \E i \in 1..Len(req[r].texts) : IsBlank(req[r].texts[i])
        /\ \E i \in 1..Len(req[r].texts) : ~IsBlank(req[r].texts[i])

\* C5: an embed or batch handler entered while the model is not loaded goes in
\* its first step to the answer 503 "Model not loaded", whatever the input,
\* without calling the adapter.
C5_Unavailable ==
    [][\A r \in Reqs :
        (/\ pc[r] = "check" /\ kind[r] \in {"embed", "embed_batch"} /\ pc'[r] # "check"
         /\ model = None)
        => (/\ pc'[r] = "done"
            /\ resp'[r] = [status |-> 503, detail |-> "Model not loaded"]
            /\ adapterCalls'[r] = <<>>)]_vars

C5_Witness ==
    \E r \in Reqs :
        /\ Answered(r, "embed") /\ IsBlank(req[r].text)
        /\ model = None /\ spc = "failed"
        /\ resp[r].status = 503

\* C6: health answers in one step without calling the adapter; its model
\* field is null exactly when the model is not loaded, and otherwise it is the
\* configured model name with dims equal to the loaded model's dimensions.
C6_Health ==
    [][\A r \in Reqs :
        (pc[r] = "check" /\ kind[r] = "health" /\ pc'[r] # "check")
        => (/\ pc'[r] = "done"
            /\ adapterCalls'[r] = <<>>
            /\ resp'[r].status = 200
            /\ IF model = None
               THEN resp'[r].body.model = JsonNull
               ELSE /\ resp'[r].body.model = JsonStr(ConfiguredModelId)
                    /\ resp'[r].body.model # JsonNull
                    /\ resp'[r].body.dims = model.dimensions)]_vars

C6_Witness ==
    \E r \in Reqs :
        /\ Answered(r, "health") /\ spc = "done"
        /\ env_MODEL_ID # "unset"
        /\ resp[r].body.model = JsonStr(env_MODEL_ID)

\* C7: embed of a real text calls the adapter exactly once, with that text; a
\* failed call is answered by status 500 carrying the cause and nothing else,
\* a successful one by the encoder's vector.
C7_EmbedNoRetry ==
    \A r \in Reqs :
        kind[r] = "embed" =>
            /\ Len(adapterCalls[r]) <= 1
            /\ (pc[r] = "done" /\ ~IsBlank(req[r].text) /\ resp[r].status # 503) =>
                /\ Len(adapterCalls[r]) = 1
                /\ adapterCalls[r][1].fn = "embed"
                /\ adapterCalls[r][1].arg = req[r].text
                /\ IF adapterCalls[r][1].outcome = "ok"
                   THEN resp[r].status = 200 /\ resp[r].embedding = EncoderOutput(req[r].text)
                   ELSE resp[r] = [status |-> 500,
                                   detail |-> <<"Failed to compute embedding: ",
                                                adapterCalls[r][1].outcome>>]

C7_Witness ==
    \E r \in Reqs :
        /\ Answered(r, "embed") /\ ~IsBlank(req[r].text)
        /\ FailedCalls(r) = {1}
        /\ resp[r].status = 500

\* C8: every vector of a successful embed or batch answer has exactly
\* Dimensions elements and the answer's dims field is Dimensions.
C8_Dims ==
    \A r \in Reqs :
        /\ (Answered(r, "embed") /\ resp[r].status = 200) =>
                resp[r].dims = Dimensions /\ Len(resp[r].embedding) = Dimensions
        /\ (Answered(r, "embed_batch") /\ resp[r].status = 200) =>
                /\ resp[r].dims = Dimensions
                /\ \A i \in 1..Len(resp[r].embeddings) :
                        Len(resp[r].embeddings[i]) = Dimensions

C8_Witness ==
    \E r \in Reqs :
        /\ Answered(r, "embed_batch") /\ resp[r].status = 200
        /\ Len(req[r].texts) >= 2
        /\ \A i \in 1..Len(req[r].texts) : ~IsBlank(req[r].texts[i])
        /\ Len(resp[r].embeddings) = Len(req[r].texts)

\* C9: the first load is the local tokenizer load; a network load happens only
\* after a failed local load and then loads the tokenizer and then the model,
\* so a model loaded after a fallback has both from the network; a failed
\* network load ends the startup with the handle unloaded; and while the
\* handle is unloaded no embed or batch request has a success answer.
IsNet(i) == ~loadLog[i].local_files_only
NetLoads == {i \in 1..Len(loadLog) : IsNet(i)}

C9_Startup ==
    /\ loadLog # <<>> =>
            loadLog[1].what = "tokenizer" /\ loadLog[1].local_files_only
    /\ \A i \in NetLoads :
            /\ \E j \in 1..(i - 1) : ~IsNet(j) /\ ~loadLog[j].ok
            /\ \A j \in 1..(i - 1) : ~IsNet(j) \/ loadLog[j].ok
            /\ loadLog[i].what = IF IsNet(i - 1) THEN "model" ELSE "tokenizer"
    /\ (model # None /\ NetLoads # {}) =>
            model.tokenizer = "network" /\ model.model = "network"
    /\ (model # None /\ NetLoads = {}) =>
            model.tokenizer = "local" /\ model.model = "local"
    /\ (\E i \in NetLoads : ~loadLog[i].ok) => spc = "failed"
    /\ spc = "failed" => model = None
    /\ model = None =>
            \A r \in Reqs :
                (pc[r] = "done" /\ kind[r] \in {"embed", "embed_batch"}) => resp[r].status = 503

C9_Witness ==
    /\ spc = "failed" /\ model = None
    /\ Len(loadLog) = 4 /\ ~loadLog[4].ok
    /\ \E r \in Reqs : Answered(r, "embed_batch") /\ resp[r].status = 503

\* C10: with the model loaded and handlers running concurrently, no step
\* changes the shared handle, and every answer is the one its own request
\* determines: its own texts and the outcome of its own adapter call.
SoloAnswer(r) ==
    CASE kind[r] = "health" ->
            [status |-> 200,
             body |-> [status |-> "ok", model |-> JsonStr(ConfiguredModelId), dims |-> Dimensions]]
      [] kind[r] = "embed" ->
            IF IsBlank(req[r].text)
            THEN [status |-> 200, embedding |-> Sentinel, dims |-> Dimensions,
                  model |-> ConfiguredModelId]
            ELSE IF FailedCalls(r) # {}
            THEN [status |-> 500,
                  detail |-> <<"Failed to compute embedding: ", adapterCalls[r][1].outcome>>]
            ELSE [status |-> 200, embedding |-> EncoderOutput(req[r].text),
                  dims |-> Dimensions, model |-> ConfiguredModelId]
      [] kind[r] = "embed_batch" ->
            IF FailedCalls(r) # {}
            THEN [status |-> 500,
                  detail |-> <<"Failed to compute embeddings: ", adapterCalls[r][1].outcome>>]
            ELSE [status |-> 200,
                  embeddings |-> [i \in 1..Len(req[r].texts) |->
                                    IF IsBlank(req[r].texts[i]) THEN Sentinel
                                    ELSE EncoderOutput(req[r].texts[i])],
                  dims |-> Dimensions, model |-> ConfiguredModelId]

Isolated ==
    \A r \in Reqs :
        /\ pc[r] = "done" => resp[r] = SoloAnswer(r)
        /\ \A i \in 1..Len(adapterCalls[r]) :
                adapterCalls[r][i].arg =
                    IF kind[r] = "embed" THEN req[r].text ELSE RealTexts(req[r].texts)

C10_Isolation == [][model' = model /\ Isolated']_vars

C10_Witness ==
    \E r, q \in Reqs :
        /\ r # q
        /\ Answered(r, "embed_batch") /\ resp[r].status = 200
        /\ ~IsBlank(req[r].texts[1])
        /\ kind[q] = "embed_batch" /\ pc[q] = "respond"
        /\ req[q].texts # req[r].texts
        /\ embeddings[q] # resp[r].embeddings
====
